---- MODULE Spec2Model ----
(***************************************************************************)
(* KingServer bootstrap and lifecycle (src/network/server_main.cc).        *)
(*                                                                         *)
(* One run of the program is modelled: the originally invoked process      *)
(* executes main(); daemonize() may create the first child (which becomes  *)
(* a session leader) and the final descendant.  Signals are delivered      *)
(* asynchronously by the environment to any live process whose handler     *)
(* for that signal is installed.                                           *)
(*                                                                         *)
(* The command line is fixed when the process starts (Init); the results   *)
(* of stat(), the contents of the configuration file and the outcomes of   *)
(* fork(), setsid(), chdir() and setrlimit() are read from the environment *)
(* at the step that asks for them.                                         *)
(***************************************************************************)
EXTENDS Integers, FiniteSets, Sequences, TLC

VARIABLES
  argv,               \* the command-line arguments after argv[0] (a set of tokens
                      \* with pairwise distinct names; argc = Cardinality(argv) + 1)
  file_args,          \* the assignments ParseFile read from the configuration file
  stat_log,           \* the stat() probes made so far, as <<path, exists>> pairs
  configfile,         \* main: std::string configfile
  dbname,             \* main: std::string dbname
  run_in_foreground,  \* main: bool run_in_foreground
  db_options,         \* main: kdb::DatabaseOptions db_options (the fields main uses)
  found,              \* parser: the mandatory parameters a source has set so far
  level_check,        \* outcome of Logger::set_current_level: "not_called",
                      \* "accepted" or "rejected"
  pc,                 \* per process: position of its main thread
  status,             \* per process: exit status once terminated (-1 before)
  exit_reason,        \* per process: the diagnostic or event it terminated with
  stop_requested,     \* per process: the global bool stop_requested
  handlers,           \* per process: signals with a handler installed by signal()
  session_leader,     \* per process: whether setsid() made it a session leader
  server,             \* per process: state of its kdb::Server object
  start_args,         \* per process: the arguments Server.Start received
  validated,          \* the options in force when the pre-flight checks completed
  daemon_failure,     \* which daemonization step failed in this run ("none" if none)
  term_count,         \* per process: deliveries of SIGINT/SIGTERM handled (capped)
  flips,              \* per process: false-to-true transitions of stop_requested
  slept,              \* per process: a sleep of the poll loop has completed
  late_sleeps,        \* per process: sleeps completed while stop_requested was
                      \* true: 0, 1, or 2 for "two or more"
  late_sleep_begun,   \* per process: a sleep was begun while stop_requested was true
  installs,           \* calls of signal() made so far by main()
  crash_delivered,    \* per process: SIGSEGV or SIGABRT was delivered to its handler
  best_effort_failed  \* the best-effort steps that failed: "rlimit", "chdir"

cfgVars  == <<argv, file_args, stat_log, configfile, dbname, run_in_foreground,
              db_options, found, level_check>>
procVars == <<pc, status, exit_reason, stop_requested, handlers, session_leader>>
srvVars  == <<server, start_args>>
histVars == <<validated, daemon_failure, term_count, flips, slept, late_sleeps,
              late_sleep_begun>>
auxVars  == <<installs, crash_delivered, best_effort_failed>>
vars     == <<cfgVars, procVars, srvVars, histVars, auxVars>>

-----------------------------------------------------------------------------
(* Bounds of the model.                                                     *)

MaxArgs      == 2   \* at most this many command-line arguments
MaxFileLines == 1   \* at most this many assignments in the configuration file
MaxSignals   == 2   \* deliveries of termination signals counted per process

-----------------------------------------------------------------------------
(* Processes and signals.                                                   *)

Orig    == "original"      \* the originally invoked process
Child   == "child"         \* created by the first fork()
Grand   == "descendant"    \* created by the second fork()
Procs   == {Orig, Child, Grand}

TermSignals  == {"SIGINT", "SIGTERM"}
CrashSignals == {"SIGSEGV", "SIGABRT"}
InstallOrder == <<"SIGINT", "SIGTERM", "SIGSEGV", "SIGABRT">>

\* exit(code): the status the parent sees is the low eight bits of code.
ExitStatus(code) == code % 256

\* The value of start_args and validated before they are set.
Nothing == [dbname |-> "<none>"]

Terminated(p) == pc[p] \in {"exited", "crashed"}
Alive(p)      == pc[p] \notin {"unborn", "exited", "crashed"}

-----------------------------------------------------------------------------
(* Parameters, values and the environment's inputs.                         *)

DbPaths          == {"/tmp/db", "/var/db"}
LogLevels        == {"", "info", "bogus"}
CompressionNames == {"disabled", "lz4", "zip"}
HashingNames     == {"xxhash-64", "murmurhash3-64", "md5"}
WriteBufferNames == {"direct", "adaptive", "lazy"}

ExplicitConfig == "/opt/kingdb.conf"

\* The values a source may give to each string parameter of the schema.
ValuesOf(name) ==
  CASE name = "db.path"                       -> DbPaths
    [] name = "log.level"                     -> LogLevels
    [] name = "storage.compression-algorithm" -> CompressionNames
    [] name = "storage.hashing-algorithm"     -> HashingNames
    [] name = "db.write-buffer.mode"          -> WriteBufferNames
    [] name = "configfile"                    -> {ExplicitConfig}
    [] OTHER                                  -> {""}

OptionNames == {"db.path", "log.level", "storage.compression-algorithm",
                "storage.hashing-algorithm", "db.write-buffer.mode"}
FlagNames   == {"foreground"}
\* Arguments that are no parameter of the schema: the two informational
\* requests, and a parameter nobody registered.
OtherNames  == {"help", "h", "generate-doc", "no.such.parameter"}

Tok(n, v) == [name |-> n, val |-> v]

CliTokens ==
  UNION {{Tok(n, v) : v \in ValuesOf(n)} : n \in OptionNames \cup {"configfile"}}
    \cup {Tok(n, "") : n \in FlagNames \cup OtherNames}
    \cup {Tok("configfile", "<missing>")}          \* "--configfile" with no value

FileTokens ==
  UNION {{Tok(n, v) : v \in ValuesOf(n)} : n \in OptionNames}
    \cup {Tok("no.such.parameter", "")}

Has(args, n)        == \E t \in args : t.name = n
Get(args, n)        == (CHOOSE t \in args : t.name = n).val
\* The value a parse leaves in a destination: the source's, or the old one.
Assign(args, n, old) == IF Has(args, n) THEN Get(args, n) ELSE old
Names(args)         == {t.name : t \in args}

\* The sets of at most n tokens of Tokens, no two with the same name.
RECURSIVE Bounded(_, _)
Bounded(Tokens, n) ==
  IF n = 0 THEN {{}}
  ELSE LET smaller == Bounded(Tokens, n - 1)
       IN  smaller \cup
           {S \cup {t} : <<S, t>> \in {x \in smaller \X Tokens : ~Has(x[1], x[2].name)}}

CmdLines     == Bounded(CliTokens, MaxArgs)
FileContents == Bounded(FileTokens, MaxFileLines)

-----------------------------------------------------------------------------
(* Collaborators whose code is outside src/network/server_main.cc.          *)

\* The parameters the full schema registers (lines 109-120).
SchemaNames == {"configfile"} \cup FlagNames \cup OptionNames

\* kdb::DatabaseOptions::AddParametersToConfigParser: the declared defaults
\* of the options main() validates.
DeclaredDefaults ==
  [log_level                      |-> "info",
   storage__compression_algorithm |-> "lz4",
   storage__hashing_algorithm     |-> "xxhash-64",
   write_buffer__mode_str         |-> "direct",
   compression                    |-> "unset",
   hash                           |-> "unset",
   write_buffer__mode             |-> "unset"]

\* ConfigParser::ParseFile / ParseCommandLine with the full schema: a source
\* naming a parameter the schema does not hold is an error.
ParseFails(args) == \E t \in args : t.name \notin SchemaNames

\* ConfigParser: every parameter a source sets is stored in its destination.
ApplyStrings(args, opts) ==
  [opts EXCEPT
     !.log_level = Assign(args, "log.level", @),
     !.storage__compression_algorithm = Assign(args, "storage.compression-algorithm", @),
     !.storage__hashing_algorithm = Assign(args, "storage.hashing-algorithm", @),
     !.write_buffer__mode_str = Assign(args, "db.write-buffer.mode", @)]

\* The parameters registered as mandatory (line 116).
Mandatory == {"db.path"}

\* ConfigParser keeps track of the mandatory parameters its sources set ...
Found(args, before) == before \cup (Names(args) \cap Mandatory)

\* ... and ConfigParser::FoundAllMandatoryParameters asks whether all were.
FoundAllMandatoryParameters == Mandatory \subseteq found

\* kdb::Logger::set_current_level: 0 when the name is a level, -1 otherwise.
set_current_level(level) == IF level \in {"info"} THEN 0 ELSE -1

-----------------------------------------------------------------------------
(* Steps of a process.                                                      *)

Goto(p, label) ==
  /\ pc' = [pc EXCEPT ![p] = label]
  /\ UNCHANGED <<status, exit_reason>>

\* exit(code), _exit(code) or return code from main.
Exit(p, code, why) ==
  /\ pc' = [pc EXCEPT ![p] = "exited"]
  /\ status' = [status EXCEPT ![p] = ExitStatus(code)]
  /\ exit_reason' = [exit_reason EXCEPT ![p] = why]

-----------------------------------------------------------------------------
(* main(), lines 71-157: configuration resolution.                          *)

DefaultLocal  == "./kingdb.conf"
DefaultSystem == "/etc/kingdb.conf"
ConfigPaths   == {DefaultLocal, DefaultSystem, ExplicitConfig}

\* ResolveConfigFile as it would be if the system-wide default were tried first.
ResolveConfigFile_system_first(cf, fs) ==
  IF cf = ""
    THEN IF DefaultSystem \in fs THEN DefaultSystem
         ELSE IF DefaultLocal \in fs THEN DefaultLocal
         ELSE ""
    ELSE cf

\* Lines 94-100 as a function of the files that exist.
ResolveConfigFile(cf, fs) ==
  IF cf = ""
    THEN IF DefaultLocal \in fs THEN DefaultLocal
         ELSE IF DefaultSystem \in fs THEN DefaultSystem
         ELSE ""
    ELSE cf

\* The stat() calls lines 94-100 make, with their results.
Probes(cf, fs) ==
  IF cf = ""
    THEN IF DefaultLocal \in fs
           THEN {<<DefaultLocal, TRUE>>}
           ELSE {<<DefaultLocal, FALSE>>, <<DefaultSystem, DefaultSystem \in fs>>}
    ELSE {<<cf, cf \in fs>>}

\* Lines 80-103.
DiscoverConfigFile ==
  /\ pc[Orig] = "discover"
  /\ IF Has(argv, "configfile") /\ Get(argv, "configfile") = "<missing>"
       THEN /\ Exit(Orig, -1, "config_error")
            /\ UNCHANGED <<configfile, stat_log>>
       ELSE \E fs \in SUBSET ConfigPaths :
              LET cf == Assign(argv, "configfile", "") IN
              /\ stat_log' = Probes(cf, fs)
              /\ IF cf # "" /\ cf \notin fs
                   THEN /\ configfile' = cf
                        /\ Exit(Orig, -1, "config_error")
                   ELSE /\ configfile' = ResolveConfigFile(cf, fs)
                        /\ Goto(Orig, "register")
  /\ UNCHANGED <<argv, file_args, dbname, run_in_foreground, db_options, found,
                 level_check, stop_requested, handlers, session_leader>>
  /\ UNCHANGED <<srvVars, histVars>>
  /\ UNCHANGED auxVars

\* Lines 105-123: the schema is registered, each destination takes its
\* default, and the default of db.write-buffer.mode becomes "adaptive".
RegisterParameters ==
  /\ pc[Orig] = "register"
  /\ dbname' = ""
  /\ db_options' = [DeclaredDefaults EXCEPT !.write_buffer__mode_str = "adaptive"]
  /\ Goto(Orig, "short_circuit")
  /\ UNCHANGED <<argv, file_args, stat_log, configfile, run_in_foreground, found,
                 level_check, stop_requested, handlers, session_leader>>
  /\ UNCHANGED <<srvVars, histVars>>
  /\ UNCHANGED auxVars

\* strncmp(argv[1], literal, n) == 0 for the literals of lines 125 and 133:
\* the argument's text begins with the first n characters of the literal.
\* An argument's text is "--" followed by its name, except "-h".
BeginsWith(t, literal) ==
  CASE literal = "--help" -> t.name = "help"
    [] literal = "-h"     -> t.name = "h"
    [] literal = "--gene" -> t.name = "generate-doc"
    [] OTHER              -> FALSE

\* ShortCircuit as it would be without the tests argc == 2, looking at the
\* first argument that matches.
ShortCircuit_any_arity ==
  /\ pc[Orig] = "short_circuit"
  /\ LET some(P(_)) == \E t \in argv : P(t)
         help(t) == BeginsWith(t, "--help") \/ BeginsWith(t, "-h")
         doc(t)  == BeginsWith(t, "--gene") \/ BeginsWith(t, "-h")
     IN  IF some(help) THEN Exit(Orig, 0, "help")
         ELSE IF some(doc) THEN Exit(Orig, 0, "generate_doc")
         ELSE Goto(Orig, "parse_file")
  /\ UNCHANGED <<cfgVars, stop_requested, handlers, session_leader>>
  /\ UNCHANGED <<srvVars, histVars>>
  /\ UNCHANGED auxVars

\* ShortCircuit as it would be if line 125 tested for "--help" alone.
ShortCircuit_long_form_only ==
  /\ pc[Orig] = "short_circuit"
  /\ LET argc == Cardinality(argv) + 1
         one(P(_)) == argc = 2 /\ \E t \in argv : P(t)
         help(t) == BeginsWith(t, "--help")
         doc(t)  == BeginsWith(t, "--gene") \/ BeginsWith(t, "-h")
     IN  IF one(help) THEN Exit(Orig, 0, "help")
         ELSE IF one(doc) THEN Exit(Orig, 0, "generate_doc")
         ELSE Goto(Orig, "parse_file")
  /\ UNCHANGED <<cfgVars, stop_requested, handlers, session_leader>>
  /\ UNCHANGED <<srvVars, histVars>>
  /\ UNCHANGED auxVars

\* Lines 125-137.
ShortCircuit ==
  /\ pc[Orig] = "short_circuit"
  /\ LET argc == Cardinality(argv) + 1
         one(P(_)) == argc = 2 /\ \E t \in argv : P(t)
         help(t) == BeginsWith(t, "--help") \/ BeginsWith(t, "-h")
         doc(t)  == BeginsWith(t, "--gene") \/ BeginsWith(t, "-h")
     IN  IF one(help) THEN Exit(Orig, 0, "help")
         ELSE IF one(doc) THEN Exit(Orig, 0, "generate_doc")
         ELSE Goto(Orig, "parse_file")
  /\ UNCHANGED <<cfgVars, stop_requested, handlers, session_leader>>
  /\ UNCHANGED <<srvVars, histVars>>
  /\ UNCHANGED auxVars

\* Lines 140-146.
ParseFile ==
  /\ pc[Orig] = "parse_file"
  /\ IF configfile = ""
       THEN /\ Goto(Orig, "parse_cmdline")
            /\ UNCHANGED <<file_args, dbname, db_options, found>>
       ELSE \E content \in FileContents :
              /\ file_args' = content
              /\ IF ParseFails(content)
                   THEN /\ Exit(Orig, -1, "config_error")
                        /\ UNCHANGED <<dbname, db_options, found>>
                   ELSE /\ dbname' = Assign(content, "db.path", dbname)
                        /\ db_options' = ApplyStrings(content, db_options)
                        /\ found' = Found(content, found)
                        /\ Goto(Orig, "parse_cmdline")
  /\ UNCHANGED <<argv, stat_log, configfile, run_in_foreground, level_check,
                 stop_requested, handlers, session_leader>>
  /\ UNCHANGED <<srvVars, histVars>>
  /\ UNCHANGED auxVars

\* ParseCommandLine as it would be if a value the file had set were kept.
ParseCommandLine_first_wins ==
  /\ pc[Orig] = "parse_cmdline"
  /\ IF ParseFails(argv)
       THEN /\ Exit(Orig, -1, "config_error")
            /\ UNCHANGED <<dbname, db_options, found, run_in_foreground, configfile>>
       ELSE LET fresh == {t \in argv : ~Has(file_args, t.name)} IN
            /\ dbname' = Assign(fresh, "db.path", dbname)
            /\ db_options' = ApplyStrings(fresh, db_options)
            /\ configfile' = Assign(argv, "configfile", configfile)
            /\ run_in_foreground' = (run_in_foreground \/ Has(argv, "foreground"))
            /\ found' = Found(argv, found)
            /\ Goto(Orig, "mandatory")
  /\ UNCHANGED <<argv, file_args, stat_log, level_check,
                 stop_requested, handlers, session_leader>>
  /\ UNCHANGED <<srvVars, histVars>>
  /\ UNCHANGED auxVars

\* Lines 148-152.
ParseCommandLine ==
  /\ pc[Orig] = "parse_cmdline"
  /\ IF ParseFails(argv)
       THEN /\ Exit(Orig, -1, "config_error")
            /\ UNCHANGED <<dbname, db_options, found, run_in_foreground, configfile>>
       ELSE /\ dbname' = Assign(argv, "db.path", dbname)
            /\ db_options' = ApplyStrings(argv, db_options)
            /\ configfile' = Assign(argv, "configfile", configfile)
            /\ run_in_foreground' = (run_in_foreground \/ Has(argv, "foreground"))
            /\ found' = Found(argv, found)
            /\ Goto(Orig, "mandatory")
  /\ UNCHANGED <<argv, file_args, stat_log, level_check,
                 stop_requested, handlers, session_leader>>
  /\ UNCHANGED <<srvVars, histVars>>
  /\ UNCHANGED auxVars

\* CheckMandatory as it would be without the test of line 154.
CheckMandatory_skipped ==
  /\ pc[Orig] = "mandatory"
  /\ Goto(Orig, "log_level")
  /\ UNCHANGED <<cfgVars, stop_requested, handlers, session_leader>>
  /\ UNCHANGED <<srvVars, histVars>>
  /\ UNCHANGED auxVars

\* Lines 154-157.
CheckMandatory ==
  /\ pc[Orig] = "mandatory"
  /\ IF ~FoundAllMandatoryParameters
       THEN Exit(Orig, -1, "missing_mandatory")
       ELSE Goto(Orig, "log_level")
  /\ UNCHANGED <<cfgVars, stop_requested, handlers, session_leader>>
  /\ UNCHANGED <<srvVars, histVars>>
  /\ UNCHANGED auxVars

-----------------------------------------------------------------------------
(* main(), lines 159-207: option validation, resource limit, handlers.      *)

\* ValidateLogLevel as it would be if the parser's verdict were not acted on.
ValidateLogLevel_lenient ==
  /\ pc[Orig] = "log_level"
  /\ level_check' = IF db_options.log_level = "" THEN "not_called"
                    ELSE IF set_current_level(db_options.log_level) < 0
                      THEN "rejected" ELSE "accepted"
  /\ Goto(Orig, "compression")
  /\ UNCHANGED <<argv, file_args, stat_log, configfile, dbname, run_in_foreground,
                 db_options, found, stop_requested, handlers, session_leader>>
  /\ UNCHANGED <<srvVars, histVars>>
  /\ UNCHANGED auxVars

\* Lines 159-164.
ValidateLogLevel ==
  /\ pc[Orig] = "log_level"
  /\ IF db_options.log_level # ""
       THEN IF set_current_level(db_options.log_level) < 0
              THEN /\ level_check' = "rejected"
                   /\ Exit(Orig, -1, "unknown_log_level")
              ELSE /\ level_check' = "accepted"
                   /\ Goto(Orig, "compression")
       ELSE /\ level_check' = "not_called"
            /\ Goto(Orig, "compression")
  /\ UNCHANGED <<argv, file_args, stat_log, configfile, dbname, run_in_foreground,
                 db_options, found, stop_requested, handlers, session_leader>>
  /\ UNCHANGED <<srvVars, histVars>>
  /\ UNCHANGED auxVars

\* ValidateCompression as it would be if an unknown name fell back to a default.
ValidateCompression_defaulting ==
  /\ pc[Orig] = "compression"
  /\ LET name == db_options.storage__compression_algorithm IN
     db_options' = [db_options EXCEPT
                      !.compression = IF name = "lz4" THEN "kLZ4Compression"
                                      ELSE "kNoCompression"]
  /\ Goto(Orig, "hashing")
  /\ UNCHANGED <<argv, file_args, stat_log, configfile, dbname, run_in_foreground,
                 found, level_check, stop_requested, handlers, session_leader>>
  /\ UNCHANGED <<srvVars, histVars>>
  /\ UNCHANGED auxVars

\* Lines 166-175.
ValidateCompression ==
  /\ pc[Orig] = "compression"
  /\ LET name == db_options.storage__compression_algorithm IN
     IF name = "disabled"
       THEN /\ db_options' = [db_options EXCEPT !.compression = "kNoCompression"]
            /\ Goto(Orig, "hashing")
       ELSE IF name = "lz4"
         THEN /\ db_options' = [db_options EXCEPT !.compression = "kLZ4Compression"]
              /\ Goto(Orig, "hashing")
         ELSE /\ Exit(Orig, -1, "unknown_compression")
              /\ UNCHANGED db_options
  /\ UNCHANGED <<argv, file_args, stat_log, configfile, dbname, run_in_foreground,
                 found, level_check, stop_requested, handlers, session_leader>>
  /\ UNCHANGED <<srvVars, histVars>>
  /\ UNCHANGED auxVars

\* Lines 177-186.
ValidateHashing ==
  /\ pc[Orig] = "hashing"
  /\ LET name == db_options.storage__hashing_algorithm IN
     IF name = "xxhash-64"
       THEN /\ db_options' = [db_options EXCEPT !.hash = "kxxHash_64"]
            /\ Goto(Orig, "write_buffer")
       ELSE IF name = "murmurhash3-64"
         THEN /\ db_options' = [db_options EXCEPT !.hash = "kMurmurHash3_64"]
              /\ Goto(Orig, "write_buffer")
         ELSE /\ Exit(Orig, -1, "unknown_hashing")
              /\ UNCHANGED db_options
  /\ UNCHANGED <<argv, file_args, stat_log, configfile, dbname, run_in_foreground,
                 found, level_check, stop_requested, handlers, session_leader>>
  /\ UNCHANGED <<srvVars, histVars>>
  /\ UNCHANGED auxVars

\* Lines 188-197.
ValidateWriteBuffer ==
  /\ pc[Orig] = "write_buffer"
  /\ LET name == db_options.write_buffer__mode_str IN
     IF name = "direct"
       THEN /\ db_options' = [db_options EXCEPT
                                !.write_buffer__mode = "kWriteBufferModeDirect"]
            /\ Goto(Orig, "limit")
       ELSE IF name = "adaptive"
         THEN /\ db_options' = [db_options EXCEPT
                                  !.write_buffer__mode = "kWriteBufferModeAdaptive"]
              /\ Goto(Orig, "limit")
         ELSE /\ Exit(Orig, -1, "unknown_write_buffer_mode")
              /\ UNCHANGED db_options
  /\ UNCHANGED <<argv, file_args, stat_log, configfile, dbname, run_in_foreground,
                 found, level_check, stop_requested, handlers, session_leader>>
  /\ UNCHANGED <<srvVars, histVars>>
  /\ UNCHANGED auxVars

\* IncreaseLimit as it would be if a limit that could not be raised ended
\* the run.
IncreaseLimit_fatal ==
  /\ pc[Orig] = "limit"
  /\ \E raised \in BOOLEAN :
       /\ best_effort_failed' = IF raised THEN best_effort_failed
                                 ELSE best_effort_failed \cup {"rlimit"}
       /\ IF raised THEN Goto(Orig, "install") ELSE Exit(Orig, -1, "config_error")
  /\ validated' = [db_options |-> db_options, dbname |-> dbname]
  /\ argv' = {}
  /\ file_args' = {}
  /\ stat_log' = {}
  /\ UNCHANGED <<configfile, dbname, run_in_foreground, db_options, found, level_check>>
  /\ UNCHANGED <<stop_requested, handlers, session_leader>>
  /\ UNCHANGED <<srvVars, daemon_failure, term_count, flips, slept, late_sleeps,
                 late_sleep_begun, installs, crash_delivered>>

\* Line 199: the result of increase_limit_open_files() is not looked at.
\* The pre-flight checks are complete here: main() reads neither its
\* arguments nor the configuration file again.  The model notes the options
\* in force (validated) and closes its record of what the environment
\* supplied during resolution (argv, file_args, stat_log).
IncreaseLimit ==
  /\ pc[Orig] = "limit"
  /\ \E raised \in BOOLEAN :
       /\ best_effort_failed' = IF raised THEN best_effort_failed
                                 ELSE best_effort_failed \cup {"rlimit"}
       /\ Goto(Orig, "install")
  /\ validated' = [db_options |-> db_options, dbname |-> dbname]
  /\ argv' = {}
  /\ file_args' = {}
  /\ stat_log' = {}
  /\ UNCHANGED <<configfile, dbname, run_in_foreground, db_options, found, level_check>>
  /\ UNCHANGED <<stop_requested, handlers, session_leader>>
  /\ UNCHANGED <<srvVars, daemon_failure, term_count, flips, slept, late_sleeps,
                 late_sleep_begun, installs, crash_delivered>>

\* InstallHandler as it would be if the call for SIGABRT were missing.
InstallHandler_without_SIGABRT ==
  /\ pc[Orig] = "install"
  /\ LET n == Cardinality(handlers[Orig]) + 1 IN
     /\ handlers' = [handlers EXCEPT ![Orig] = @ \cup {InstallOrder[n]}]
     /\ IF n = Len(InstallOrder) - 1
          THEN Goto(Orig, "daemonize")
          ELSE UNCHANGED <<pc, status, exit_reason>>
  /\ installs' = installs + 1
  /\ UNCHANGED <<cfgVars, stop_requested, session_leader>>
  /\ UNCHANGED <<srvVars, histVars, crash_delivered, best_effort_failed>>

\* Lines 203-207: one signal() call per step, in the order of the source.
InstallHandler ==
  /\ pc[Orig] = "install"
  /\ LET n == Cardinality(handlers[Orig]) + 1 IN
     /\ handlers' = [handlers EXCEPT ![Orig] = @ \cup {InstallOrder[n]}]
     /\ IF n = Len(InstallOrder)
          THEN Goto(Orig, "daemonize")
          ELSE UNCHANGED <<pc, status, exit_reason>>
  /\ installs' = installs + 1
  /\ UNCHANGED <<cfgVars, stop_requested, session_leader>>
  /\ UNCHANGED <<srvVars, histVars, crash_delivered, best_effort_failed>>

-----------------------------------------------------------------------------
(* daemonize(), lines 39-68, and its call, lines 209-212.                   *)

\* Daemonize as it would be if the foreground flag were not consulted.
Daemonize_ignoring_flag ==
  /\ pc[Orig] = "daemonize"
  /\ Goto(Orig, "fork1")
  /\ UNCHANGED <<cfgVars, stop_requested, handlers, session_leader>>
  /\ UNCHANGED <<srvVars, histVars>>
  /\ UNCHANGED auxVars

\* Line 209: daemonize() is called only when run_in_foreground is false.
Daemonize ==
  /\ pc[Orig] = "daemonize"
  /\ IF run_in_foreground THEN Goto(Orig, "start") ELSE Goto(Orig, "fork1")
  /\ UNCHANGED <<cfgVars, stop_requested, handlers, session_leader>>
  /\ UNCHANGED <<srvVars, histVars>>
  /\ UNCHANGED auxVars

\* switch (fork()): on success the child continues after the switch with a
\* copy of the parent's memory and signal dispositions, and the parent's one
\* remaining statement is _exit(EXIT_SUCCESS), taken in the same step; on
\* failure daemonize() returns -1.
Fork(parent, child, step, next) ==
  /\ pc[parent] = step
  /\ \E ok \in BOOLEAN :
       IF ok
         THEN /\ pc' = [pc EXCEPT ![parent] = "exited", ![child] = next]
              /\ status' = [status EXCEPT ![parent] = ExitStatus(0)]
              /\ exit_reason' = [exit_reason EXCEPT ![parent] = "daemon_handoff"]
              /\ stop_requested' = [stop_requested EXCEPT ![child] = stop_requested[parent]]
              /\ handlers' = [handlers EXCEPT ![child] = handlers[parent]]
              /\ term_count' = [term_count EXCEPT ![child] = term_count[parent]]
              /\ flips' = [flips EXCEPT ![child] = flips[parent]]
              /\ UNCHANGED daemon_failure
         ELSE /\ Goto(parent, "daemon_error")
              /\ daemon_failure' = step
              /\ UNCHANGED <<stop_requested, handlers, term_count, flips>>
  /\ UNCHANGED <<cfgVars, session_leader, srvVars, validated, slept, late_sleeps,
                 late_sleep_begun>>
  /\ UNCHANGED auxVars

\* Lines 46-51.
Fork1 == Fork(Orig, Child, "fork1", "setsid")

\* Line 53.
Setsid ==
  /\ pc[Child] = "setsid"
  /\ \E ok \in BOOLEAN :
       IF ok
         THEN /\ session_leader' = [session_leader EXCEPT ![Child] = TRUE]
              /\ Goto(Child, "fork2")
              /\ UNCHANGED daemon_failure
         ELSE /\ Goto(Child, "daemon_error")
              /\ daemon_failure' = "setsid"
              /\ UNCHANGED session_leader
  /\ UNCHANGED <<cfgVars, stop_requested, handlers, srvVars, validated,
                 term_count, flips, slept, late_sleeps, late_sleep_begun>>
  /\ UNCHANGED auxVars

\* Lines 55-60.
Fork2 == Fork(Child, Grand, "fork2", "chdir")

\* Lines 62-67: umask(0), chdir("/"), return 0 whatever chdir() returned;
\* the test of line 209 then fails and main goes on to line 214.
Chdir ==
  /\ pc[Grand] = "chdir"
  /\ \E ok \in BOOLEAN :
       /\ best_effort_failed' = IF ok THEN best_effort_failed
                                 ELSE best_effort_failed \cup {"chdir"}
       /\ Goto(Grand, "start")
  /\ UNCHANGED <<cfgVars, stop_requested, handlers, session_leader>>
  /\ UNCHANGED <<srvVars, histVars, installs, crash_delivered>>

\* DaemonError as it would be if a failed daemonize() fell back to the foreground.
DaemonError_fallback(p) ==
  /\ pc[p] = "daemon_error"
  /\ Goto(p, "start")
  /\ UNCHANGED <<cfgVars, stop_requested, handlers, session_leader>>
  /\ UNCHANGED <<srvVars, histVars>>
  /\ UNCHANGED auxVars

\* Lines 209-212 when daemonize() returned -1.
DaemonError(p) ==
  /\ pc[p] = "daemon_error"
  /\ Exit(p, -1, "daemon_error")
  /\ UNCHANGED <<cfgVars, stop_requested, handlers, session_leader>>
  /\ UNCHANGED <<srvVars, histVars>>
  /\ UNCHANGED auxVars

-----------------------------------------------------------------------------
(* main(), lines 214-222: the supervisor.                                   *)

\* StartCall as it would be if Server.Start were handed a fresh
\* DatabaseOptions instead of the resolved one.
StartCall_with_fresh_options(p) ==
  /\ pc[p] = "start"
  /\ start_args' = [start_args EXCEPT
                      ![p] = [db_options |-> DeclaredDefaults, dbname |-> dbname]]
  /\ server' = [server EXCEPT ![p] = "starting"]
  /\ Goto(p, "in_start")
  /\ UNCHANGED <<cfgVars, stop_requested, handlers, session_leader, histVars>>
  /\ UNCHANGED auxVars

\* StartCall as it would be if a stop requested during startup made main
\* return at once instead of starting the server.
StartCall_unless_stop_requested(p) ==
  /\ pc[p] = "start"
  /\ IF stop_requested[p]
       THEN /\ Exit(p, 0, "stopped")
            /\ UNCHANGED <<server, start_args>>
       ELSE /\ start_args' = [start_args EXCEPT
                                ![p] = [db_options |-> db_options, dbname |-> dbname]]
            /\ server' = [server EXCEPT ![p] = "starting"]
            /\ Goto(p, "in_start")
  /\ UNCHANGED <<cfgVars, stop_requested, handlers, session_leader, histVars>>
  /\ UNCHANGED auxVars

\* Lines 214-215: Server.Start is entered with the options and the path.
StartCall(p) ==
  /\ pc[p] = "start"
  /\ start_args' = [start_args EXCEPT ![p] = [db_options |-> db_options, dbname |-> dbname]]
  /\ server' = [server EXCEPT ![p] = "starting"]
  /\ Goto(p, "in_start")
  /\ UNCHANGED <<cfgVars, stop_requested, handlers, session_leader, histVars>>
  /\ UNCHANGED auxVars

\* Server.Start returns (line 216 logs).
StartReturn(p) ==
  /\ pc[p] = "in_start"
  /\ server' = [server EXCEPT ![p] = "running"]
  /\ Goto(p, "loop")
  /\ UNCHANGED <<cfgVars, stop_requested, handlers, session_leader, start_args, histVars>>
  /\ UNCHANGED auxVars

\* The server decides by itself to stop: IsStopRequested() turns true.
ServerSelfStop(p) ==
  /\ Alive(p)
  /\ server[p] = "running"
  /\ server' = [server EXCEPT ![p] = "stop_requested"]
  /\ UNCHANGED <<cfgVars, procVars, start_args, histVars>>
  /\ UNCHANGED auxVars

IsStopRequested(p) == server[p] = "stop_requested"

\* LoopCheck as it would be if only the server's own indicator were tested.
LoopCheck_ignoring_flag(p) ==
  /\ pc[p] = "loop"
  /\ IF ~IsStopRequested(p)
       THEN Goto(p, "sleep_call")
       ELSE Goto(p, "stop")
  /\ UNCHANGED <<cfgVars, stop_requested, handlers, session_leader>>
  /\ UNCHANGED <<srvVars, histVars>>
  /\ UNCHANGED auxVars

\* LoopCheck as it would be if the loop slept once before its first test
\* (do ... while).
LoopCheck_sleep_first(p) ==
  /\ pc[p] = "loop"
  /\ IF ~slept[p] \/ (~stop_requested[p] /\ ~IsStopRequested(p))
       THEN Goto(p, "sleep_call")
       ELSE Goto(p, "stop")
  /\ UNCHANGED <<cfgVars, stop_requested, handlers, session_leader>>
  /\ UNCHANGED <<srvVars, histVars>>
  /\ UNCHANGED auxVars

\* LoopCheck as it would be if the loop gave up after one sleep.
LoopCheck_giving_up(p) ==
  /\ pc[p] = "loop"
  /\ IF ~slept[p] /\ ~stop_requested[p] /\ ~IsStopRequested(p)
       THEN Goto(p, "sleep_call")
       ELSE Goto(p, "stop")
  /\ UNCHANGED <<cfgVars, stop_requested, handlers, session_leader>>
  /\ UNCHANGED <<srvVars, histVars>>
  /\ UNCHANGED auxVars

\* Line 217: the loop condition.
LoopCheck(p) ==
  /\ pc[p] = "loop"
  /\ IF ~stop_requested[p] /\ ~IsStopRequested(p)
       THEN Goto(p, "sleep_call")
       ELSE Goto(p, "stop")
  /\ UNCHANGED <<cfgVars, stop_requested, handlers, session_leader>>
  /\ UNCHANGED <<srvVars, histVars>>
  /\ UNCHANGED auxVars

\* Line 218: sleep_for is entered ...
SleepBegin(p) ==
  /\ pc[p] = "sleep_call"
  /\ Goto(p, "sleeping")
  /\ late_sleep_begun' = [late_sleep_begun EXCEPT ![p] = @ \/ stop_requested[p]]
  /\ UNCHANGED <<cfgVars, stop_requested, handlers, session_leader, srvVars,
                 validated, daemon_failure, term_count, flips, slept, late_sleeps>>
  /\ UNCHANGED auxVars

\* ... and returns after the interval.
SleepEnd(p) ==
  /\ pc[p] = "sleeping"
  /\ Goto(p, "loop")
  /\ slept' = [slept EXCEPT ![p] = TRUE]
  /\ late_sleeps' = [late_sleeps EXCEPT
                       ![p] = IF stop_requested[p] /\ @ < 2 THEN @ + 1 ELSE @]
  /\ UNCHANGED <<cfgVars, stop_requested, handlers, session_leader, srvVars,
                 validated, daemon_failure, term_count, flips, late_sleep_begun>>
  /\ UNCHANGED auxVars

\* Line 220: Server.Stop is entered ...
StopCall(p) ==
  /\ pc[p] = "stop"
  /\ server' = [server EXCEPT ![p] = "stopping"]
  /\ Goto(p, "in_stop")
  /\ UNCHANGED <<cfgVars, stop_requested, handlers, session_leader, start_args, histVars>>
  /\ UNCHANGED auxVars

\* ... and returns (line 221 logs).
StopReturn(p) ==
  /\ pc[p] = "in_stop"
  /\ server' = [server EXCEPT ![p] = "stopped"]
  /\ Goto(p, "return")
  /\ UNCHANGED <<cfgVars, stop_requested, handlers, session_leader, start_args, histVars>>
  /\ UNCHANGED auxVars

\* Line 222.
MainReturn(p) ==
  /\ pc[p] = "return"
  /\ Exit(p, 0, "stopped")
  /\ UNCHANGED <<cfgVars, stop_requested, handlers, session_leader>>
  /\ UNCHANGED <<srvVars, histVars>>
  /\ UNCHANGED auxVars

-----------------------------------------------------------------------------
(* Signal handlers, lines 20-36.                                            *)

\* The termination handler as it would be if it only logged the signal.
termination_signal_handler_logging_only(p, sig) ==
  /\ Alive(p)
  /\ sig \in handlers[p]
  /\ term_count[p] < MaxSignals
  /\ term_count' = [term_count EXCEPT ![p] = @ + 1]
  /\ UNCHANGED <<cfgVars, procVars, srvVars, flips,
                 validated, daemon_failure, slept, late_sleeps, late_sleep_begun>>
  /\ UNCHANGED auxVars

\* The termination handler as it would be if it toggled the flag.
termination_signal_handler_toggling(p, sig) ==
  /\ Alive(p)
  /\ sig \in handlers[p]
  /\ term_count[p] < MaxSignals
  /\ stop_requested' = [stop_requested EXCEPT ![p] = ~@]
  /\ term_count' = [term_count EXCEPT ![p] = @ + 1]
  /\ flips' = [flips EXCEPT ![p] = IF stop_requested[p] THEN @ ELSE @ + 1]
  /\ UNCHANGED <<cfgVars, pc, status, exit_reason, handlers, session_leader, srvVars,
                 validated, daemon_failure, slept, late_sleeps, late_sleep_begun>>
  /\ UNCHANGED auxVars

\* Lines 22-25, run on delivery of sig to process p.
termination_signal_handler(p, sig) ==
  /\ Alive(p)
  /\ sig \in handlers[p]
  /\ term_count[p] < MaxSignals
  /\ stop_requested' = [stop_requested EXCEPT ![p] = TRUE]
  /\ term_count' = [term_count EXCEPT ![p] = @ + 1]
  /\ flips' = [flips EXCEPT ![p] = IF stop_requested[p] THEN @ ELSE @ + 1]
  /\ UNCHANGED <<cfgVars, pc, status, exit_reason, handlers, session_leader, srvVars,
                 validated, daemon_failure, slept, late_sleeps, late_sleep_begun>>
  /\ UNCHANGED auxVars

\* The crash handler as it would be if it asked for a graceful stop instead
\* of calling exit(1).
crash_signal_handler_requesting_stop(p, sig) ==
  /\ Alive(p)
  /\ sig \in handlers[p]
  /\ ~crash_delivered[p]
  /\ stop_requested' = [stop_requested EXCEPT ![p] = TRUE]
  /\ crash_delivered' = [crash_delivered EXCEPT ![p] = TRUE]
  /\ UNCHANGED <<cfgVars, pc, status, exit_reason, handlers, session_leader, srvVars,
                 histVars>>
  /\ UNCHANGED <<installs, best_effort_failed>>

\* Lines 27-36, run on delivery of sig to process p: exit(1).
crash_signal_handler(p, sig) ==
  /\ Alive(p)
  /\ sig \in handlers[p]
  /\ pc' = [pc EXCEPT ![p] = "crashed"]
  /\ status' = [status EXCEPT ![p] = ExitStatus(1)]
  /\ exit_reason' = [exit_reason EXCEPT ![p] = "crash"]
  /\ crash_delivered' = [crash_delivered EXCEPT ![p] = TRUE]
  /\ UNCHANGED <<cfgVars, stop_requested, handlers, session_leader, srvVars, histVars>>
  /\ UNCHANGED <<installs, best_effort_failed>>

-----------------------------------------------------------------------------
(* The run.                                                                 *)

\* Lines 20 and 73-78: the state when main() is entered.
Init ==
  /\ argv \in CmdLines
  /\ file_args = {}
  /\ stat_log = {}
  /\ configfile = ""
  /\ dbname = ""
  /\ run_in_foreground = FALSE
  /\ db_options = DeclaredDefaults
  /\ found = {}
  /\ level_check = "not_called"
  /\ pc = [p \in Procs |-> IF p = Orig THEN "discover" ELSE "unborn"]
  /\ status = [p \in Procs |-> -1]
  /\ exit_reason = [p \in Procs |-> "none"]
  /\ stop_requested = [p \in Procs |-> FALSE]
  /\ handlers = [p \in Procs |-> {}]
  /\ session_leader = [p \in Procs |-> FALSE]
  /\ server = [p \in Procs |-> "none"]
  /\ start_args = [p \in Procs |-> Nothing]
  /\ validated = Nothing
  /\ daemon_failure = "none"
  /\ term_count = [p \in Procs |-> 0]
  /\ flips = [p \in Procs |-> 0]
  /\ slept = [p \in Procs |-> FALSE]
  /\ late_sleeps = [p \in Procs |-> 0]
  /\ late_sleep_begun = [p \in Procs |-> FALSE]
  /\ installs = 0
  /\ crash_delivered = [p \in Procs |-> FALSE]
  /\ best_effort_failed = {}

\* A step of some process's main thread.
MainStep ==
  \/ DiscoverConfigFile
  \/ RegisterParameters
  \/ ShortCircuit
  \/ ParseFile
  \/ ParseCommandLine
  \/ CheckMandatory
  \/ ValidateLogLevel
  \/ ValidateCompression
  \/ ValidateHashing
  \/ ValidateWriteBuffer
  \/ IncreaseLimit
  \/ InstallHandler
  \/ Daemonize
  \/ Fork1
  \/ Setsid
  \/ Fork2
  \/ Chdir
  \/ \E p \in Procs : DaemonError(p)
  \/ \E p \in Procs : StartCall(p)
  \/ \E p \in Procs : StartReturn(p)
  \/ \E p \in Procs : LoopCheck(p)
  \/ \E p \in Procs : SleepBegin(p)
  \/ \E p \in Procs : SleepEnd(p)
  \/ \E p \in Procs : StopCall(p)
  \/ \E p \in Procs : StopReturn(p)
  \/ \E p \in Procs : MainReturn(p)

\* A step of the environment: a signal is delivered, or the server asks to stop.
EnvStep ==
  \/ \E p \in Procs, sig \in TermSignals : termination_signal_handler(p, sig)
  \/ \E p \in Procs, sig \in CrashSignals : crash_signal_handler(p, sig)
  \/ \E p \in Procs : ServerSelfStop(p)

Next == MainStep \/ EnvStep

Spec == Init /\ [][Next]_vars

\* The main thread of every process keeps running: a step it can take is
\* eventually taken (sleep_for, Server.Start and Server.Stop return).
LiveSpec == Init /\ [][Next]_vars /\ WF_vars(MainStep)

-----------------------------------------------------------------------------
(* Vocabulary of the properties.                                            *)

Started(p)       == start_args[p] # Nothing     \* Server.Start has been called
HandlerInstalled == \E p \in Procs : handlers[p] # {}
Forked           == pc[Child] # "unborn"
LogOpen          == validated = Nothing         \* argv, file_args, stat_log are recorded
InLoop(p)        == pc[p] \in {"loop", "sleep_call", "sleeping"}
StoppedCleanly(p) ==
  pc[p] = "exited" /\ status[p] = 0 /\ exit_reason[p] = "stopped" /\ server[p] = "stopped"

-----------------------------------------------------------------------------
(* C1. Graceful shutdown.  Once a termination signal has been delivered to  *)
(* a process that is in the poll loop, the handler has set stop_requested,  *)
(* and that process eventually leaves the loop, has Server.Stop called and  *)
(* returned, and exits with status 0 -- unless a crash signal ends it       *)
(* first.  Checked under LiveSpec (fair main thread).  At most one process  *)
(* of a run ever calls Server.Start, so the process that ends is the one    *)
(* that was in the loop.                                                    *)

C1_GracefulShutdown ==
  /\ [](\A p \in Procs : InLoop(p) /\ term_count[p] > 0 => stop_requested[p])
  /\ (\E p \in Procs : InLoop(p) /\ term_count[p] > 0)
       ~> (\E p \in Procs : /\ Started(p) /\ term_count[p] > 0
                            /\ (StoppedCleanly(p) \/ pc[p] = "crashed"))

\* A process that slept through the arrival of the signal has stopped cleanly.
C1_Witness ==
  \E p \in Procs : StoppedCleanly(p) /\ term_count[p] > 0 /\ late_sleeps[p] = 1

-----------------------------------------------------------------------------
(* C2. Enum validation gate.  A run that ends on an unknown compression,    *)
(* hashing or write-buffer name ends with a nonzero status, with no signal  *)
(* handler installed, no fork and no Server.Start; and whenever a handler   *)
(* is installed or Server.Start has been called, the three options hold a   *)
(* name of their closed set and the typed mode is the one that name maps to.*)

CompressionOf  == [disabled |-> "kNoCompression", lz4 |-> "kLZ4Compression"]
HashOf         == ("xxhash-64" :> "kxxHash_64") @@ ("murmurhash3-64" :> "kMurmurHash3_64")
WriteBufferOf  == [direct |-> "kWriteBufferModeDirect", adaptive |-> "kWriteBufferModeAdaptive"]

EnumsValid(o) ==
  /\ o.storage__compression_algorithm \in DOMAIN CompressionOf
  /\ o.storage__hashing_algorithm \in DOMAIN HashOf
  /\ o.write_buffer__mode_str \in DOMAIN WriteBufferOf
  /\ o.compression = CompressionOf[o.storage__compression_algorithm]
  /\ o.hash = HashOf[o.storage__hashing_algorithm]
  /\ o.write_buffer__mode = WriteBufferOf[o.write_buffer__mode_str]

EnumDiagnostics == {"unknown_compression", "unknown_hashing", "unknown_write_buffer_mode"}

C2_EnumGate ==
  /\ exit_reason[Orig] \in EnumDiagnostics =>
       /\ pc[Orig] = "exited" /\ status[Orig] # 0
       /\ ~HandlerInstalled /\ ~Forked /\ \A p \in Procs : ~Started(p)
  /\ (HandlerInstalled \/ \E p \in Procs : Started(p)) => EnumsValid(db_options)
  /\ \A p \in Procs : Started(p) => EnumsValid(start_args[p].db_options)

\* The gate has fired on a name taken from the command line.
C2_Witness ==
  /\ exit_reason[Orig] = "unknown_compression"
  /\ Has(argv, "storage.compression-algorithm")
  /\ Has(argv, "db.path")

-----------------------------------------------------------------------------
(* C3. Log-level validation.                                                *)

(* C3 as stated: the resolved log level is always put to the logging        *)
(* subsystem's level parser, so that Server.Start is only ever reached with *)
(* a level the parser has accepted.                                         *)
C3_AlwaysValidated ==
  \A p \in Procs : Started(p) => level_check = "accepted"

(* C3 as amended: every non-empty resolved log level is put to the level    *)
(* parser; when the parser rejects it the run ends with a nonzero status    *)
(* before any handler is installed, any fork and Server.Start; an empty log *)
(* level is not put to the parser at all.  So Server.Start is reached only  *)
(* with a level the parser accepted or with the empty level, unchecked.     *)
C3_LogLevelGate ==
  /\ level_check = "rejected" =>
       /\ pc[Orig] = "exited" /\ status[Orig] # 0
       /\ exit_reason[Orig] = "unknown_log_level"
       /\ set_current_level(db_options.log_level) < 0
       /\ ~HandlerInstalled /\ ~Forked /\ \A p \in Procs : ~Started(p)
  /\ level_check = "accepted" =>
       db_options.log_level # "" /\ set_current_level(db_options.log_level) >= 0
  /\ (HandlerInstalled \/ \E p \in Procs : Started(p)) =>
       IF db_options.log_level = ""
         THEN level_check = "not_called"
         ELSE level_check = "accepted"

\* Server.Start has been called with an empty log level nobody checked.
C3_Witness ==
  \E p \in Procs :
    /\ Started(p)
    /\ start_args[p].db_options.log_level = ""
    /\ level_check = "not_called"

-----------------------------------------------------------------------------
(* C4. Mandatory-parameter gate.  When neither the configuration file nor   *)
(* the command line sets db.path, the run ends with a nonzero status at the *)
(* mandatory check: before the log level or any enumerated option is        *)
(* validated, before any handler is installed, before any fork and before   *)
(* Server.Start.  Whenever Server.Start is called, db.path is non-empty.    *)

BeyondMandatory ==
  pc[Orig] \notin {"discover", "register", "short_circuit", "parse_file",
                   "parse_cmdline", "mandatory"}
    /\ exit_reason[Orig] \notin {"config_error", "help", "generate_doc", "missing_mandatory"}

-----------------------------------------------------------------------------
(* C5. Config precedence.  After full resolution every parameter holds the  *)
(* command line's value if the command line sets it, else the file's value  *)
(* if the file sets it, else its default; the file is read only before the  *)
(* command line is parsed; and Server.Start receives the values that were   *)
(* in force when resolution and validation completed.                       *)

\* The default a parameter has when no source sets it (lines 116, 119, 123).
DefaultOf(name) ==
  CASE name = "db.path"                       -> ""
    [] name = "log.level"                     -> DeclaredDefaults.log_level
    [] name = "storage.compression-algorithm" -> DeclaredDefaults.storage__compression_algorithm
    [] name = "storage.hashing-algorithm"     -> DeclaredDefaults.storage__hashing_algorithm
    [] name = "db.write-buffer.mode"          -> "adaptive"

\* The value a parameter has in the program's variables.
InForce(name, path, opts) ==
  CASE name = "db.path"                       -> path
    [] name = "log.level"                     -> opts.log_level
    [] name = "storage.compression-algorithm" -> opts.storage__compression_algorithm
    [] name = "storage.hashing-algorithm"     -> opts.storage__hashing_algorithm
    [] name = "db.write-buffer.mode"          -> opts.write_buffer__mode_str

Precedence(name) ==
  IF \E t \in argv : t.name = name
    THEN (CHOOSE t \in argv : t.name = name).val
    ELSE IF \E t \in file_args : t.name = name
      THEN (CHOOSE t \in file_args : t.name = name).val
      ELSE DefaultOf(name)

Resolved ==
  pc[Orig] \in {"mandatory", "log_level", "compression", "hashing", "write_buffer", "limit"}
    \/ exit_reason[Orig] \in {"missing_mandatory", "unknown_log_level"} \cup EnumDiagnostics

C5_Precedence ==
  /\ [](Resolved =>
          /\ \A name \in OptionNames : InForce(name, dbname, db_options) = Precedence(name)
          /\ run_in_foreground = (\E t \in argv : t.name = "foreground"))
  /\ [][/\ file_args' # file_args => pc[Orig] = "parse_file" \/ pc[Orig] = "limit"
        /\ pc[Orig] = "parse_file" => pc'[Orig] \in {"parse_cmdline", "exited"}
        /\ pc[Orig] = "parse_cmdline" => pc'[Orig] \in {"mandatory", "exited"}
        /\ (pc[Orig] = "limit" /\ pc'[Orig] = "install") =>
             \A name \in OptionNames :
               InForce(name, validated'.dbname, validated'.db_options) = Precedence(name)
       ]_vars
  /\ [](\A p \in Procs : Started(p) => start_args[p] = validated)

\* A parameter other than db.path was set by both sources, to different values.
C5_Witness ==
  /\ pc[Orig] = "limit"
  /\ \E name \in OptionNames \ {"db.path"} :
       /\ Has(argv, name) /\ Has(file_args, name)
       /\ Get(argv, name) # Get(file_args, name)
       /\ InForce(name, dbname, db_options) = Get(argv, name)

-----------------------------------------------------------------------------
(* C6. Daemonization toggle.  With the foreground flag set no process is    *)
(* ever forked and only the original process calls Server.Start.  Without   *)
(* it, once both forks have succeeded the original process and the first    *)
(* child (the session leader) have each exited with status 0 without        *)
(* calling Server.Start, and the only process that ever calls Server.Start  *)
(* is the final descendant, which is not a session leader.                  *)

HandedOff(p) ==
  pc[p] = "exited" /\ status[p] = 0 /\ exit_reason[p] = "daemon_handoff" /\ ~Started(p)

C6_DaemonizationToggle ==
  /\ run_in_foreground =>
       /\ ~Forked /\ pc[Grand] = "unborn"
       /\ \A p \in Procs : Started(p) => p = Orig
  /\ Forked => ~run_in_foreground /\ HandedOff(Orig)
  /\ pc[Grand] # "unborn" =>
       /\ HandedOff(Orig)
       /\ HandedOff(Child) /\ session_leader[Child]
       /\ ~session_leader[Grand] /\ ~session_leader[Orig]
  /\ (\E p \in Procs : Started(p)) /\ ~run_in_foreground =>
       /\ {p \in Procs : Started(p)} = {Grand}
       /\ pc[Grand] # "unborn"

\* The final descendant runs the server after both hand-offs.
C6_Witness ==
  /\ ~run_in_foreground
  /\ server[Grand] = "running"
  /\ HandedOff(Orig) /\ HandedOff(Child)

-----------------------------------------------------------------------------
(* C7. Daemonization failure aborts startup.  When the first fork, setsid   *)
(* or the second fork has failed, the process that saw the failure is on    *)
(* its way out or gone, and its exit status is nonzero; no process is       *)
(* created afterwards and no process of the run ever calls Server.Start.    *)

Observer == IF daemon_failure = "fork1" THEN Orig ELSE Child

C7_DaemonFailureAborts ==
  daemon_failure # "none" =>
    /\ pc[Observer] \in {"daemon_error", "exited", "crashed"}
    /\ Terminated(Observer) => status[Observer] # 0
    /\ pc[Observer] = "exited" => exit_reason[Observer] = "daemon_error"
    /\ \A p \in Procs : ~Started(p) /\ server[p] = "none"
    /\ pc[Grand] = "unborn"
    /\ daemon_failure = "fork1" => pc[Child] = "unborn"

\* The second fork failed and the session leader has reported it and left.
C7_Witness ==
  /\ daemon_failure = "fork2"
  /\ pc[Child] = "exited" /\ status[Child] = 255

-----------------------------------------------------------------------------
(* C8. Exit-status contract, as stated: a process exits with status 0 only  *)
(* after a successful hand-off, a graceful stop or an informational         *)
(* short-circuit; and in every run in which a configuration, validation or  *)
(* daemonization step has failed, the status of the originally invoked      *)
(* process is nonzero.                                                      *)

FailureDiagnostics ==
  {"config_error", "missing_mandatory", "unknown_log_level", "daemon_error"}
    \cup EnumDiagnostics

StepFailed ==
  \/ daemon_failure # "none"
  \/ \E p \in Procs : exit_reason[p] \in FailureDiagnostics

C8_ExitStatusContract ==
  /\ \A p \in Procs :
       (Terminated(p) /\ status[p] = 0) =>
          exit_reason[p] \in {"daemon_handoff", "stopped", "help", "generate_doc"}
  /\ (StepFailed /\ Terminated(Orig)) => status[Orig] # 0

-----------------------------------------------------------------------------
(* C9. Stop-flag monotonicity and idempotence.  In every process the flag   *)
(* is false until a termination signal has been handled and true ever       *)
(* after, whatever the number of deliveries: it has made exactly one        *)
(* false-to-true transition once a delivery was handled, none before; and   *)
(* no step other than the handler's changes the flag of a running process,  *)
(* and no step turns it from true to false.                                 *)

C9_StopFlag ==
  /\ [](\A p \in Procs :
          /\ stop_requested[p] <=> term_count[p] > 0
          /\ flips[p] = IF term_count[p] > 0 THEN 1 ELSE 0)
  /\ [][\A p \in Procs :
          /\ (pc[p] # "unborn" /\ stop_requested[p]) => stop_requested'[p]
          /\ (pc[p] # "unborn" /\ stop_requested'[p] # stop_requested[p]) =>
               /\ term_count'[p] = term_count[p] + 1
               /\ pc'[p] = pc[p]
          /\ (pc[p] = "unborn" /\ pc'[p] # "unborn") =>
               \E q \in Procs : pc[q] # "unborn" /\ stop_requested'[p] = stop_requested[q]
       ]_vars

\* Two deliveries to a process in the poll loop: one transition.
C9_Witness ==
  \E p \in Procs :
    InLoop(p) /\ term_count[p] = 2 /\ flips[p] = 1 /\ stop_requested[p]

-----------------------------------------------------------------------------
(* C10. Bounded shutdown latency.                                           *)

(* C10 as stated: with the flag true the main thread completes at most one  *)
(* further sleep, and never starts a sleep.                                 *)
C10_NeverStartsSleep ==
  \A p \in Procs : late_sleeps[p] <= 1 /\ ~late_sleep_begun[p]

(* C10 as amended: with the flag true the main thread completes at most one *)
(* further sleep -- the one in progress, or the one whose loop test had     *)
(* already passed when the signal arrived and which may therefore start     *)
(* with the flag true -- and after it the thread only tests the loop        *)
(* condition, leaves the loop and calls Server.Stop.                        *)
C10_BoundedLatency ==
  \A p \in Procs :
    /\ late_sleeps[p] <= 1
    /\ late_sleeps[p] = 1 => stop_requested[p] /\ pc[p] \notin {"sleep_call", "sleeping"}
    /\ late_sleep_begun[p] => stop_requested[p]
    /\ (stop_requested[p] /\ pc[p] \in {"sleep_call", "sleeping"}) => late_sleeps[p] = 0

\* A sleep was begun with the flag already true, completed, and Server.Stop
\* has been called.
C10_Witness ==
  \E p \in Procs :
    late_sleep_begun[p] /\ late_sleeps[p] = 1 /\ pc[p] = "in_stop"

-----------------------------------------------------------------------------
(* C11. Signal-handler installation order.  main() calls signal() once for  *)
(* each of SIGINT, SIGTERM, SIGSEGV and SIGABRT and never again; the first  *)
(* call is made only after every option has been validated and the          *)
(* open-file limit adjustment has been attempted, the last one before the   *)
(* first fork and before Server.Start; so every process that is forked or   *)
(* reaches Server.Start has all four handlers installed.                    *)

AllSignals == TermSignals \cup CrashSignals

PreflightDone ==
  /\ ~LogOpen
  /\ validated = [db_options |-> db_options, dbname |-> dbname]
  /\ EnumsValid(db_options)
  /\ level_check # "rejected"
  /\ dbname # ""
  /\ pc[Orig] \notin {"discover", "register", "short_circuit", "parse_file",
                       "parse_cmdline", "mandatory", "log_level", "compression",
                       "hashing", "write_buffer", "limit"}

C11_InstallationOrder ==
  /\ []( /\ installs = Cardinality(handlers[Orig])
         /\ installs <= Len(InstallOrder)
         /\ handlers[Orig] = {InstallOrder[i] : i \in 1..installs}
         /\ installs > 0 => PreflightDone
         /\ pc[Orig] = "install" => (PreflightDone /\ installs < Len(InstallOrder))
         /\ (installs > 0 /\ installs < Len(InstallOrder)) =>
              pc[Orig] \in {"install", "crashed"}
         /\ \A p \in Procs :
              (p # Orig /\ pc[p] # "unborn") \/ Started(p) \/ pc[p] \in {"fork1", "start"}
                 => handlers[p] = AllSignals /\ installs = Len(InstallOrder))
  /\ [][/\ installs' # installs =>
             /\ installs' = installs + 1
             /\ pc[Orig] = "install"
             /\ ~Forked /\ \A p \in Procs : ~Started(p)
        /\ \A p \in Procs :
             handlers'[p] # handlers[p] =>
               \/ p = Orig /\ installs' = installs + 1
               \/ pc[p] = "unborn" /\ pc'[p] # "unborn" /\ handlers'[p] = AllSignals
       ]_vars

\* The final descendant has called Server.Start with the four handlers it
\* inherited through both forks.
C11_Witness ==
  /\ Started(Grand)
  /\ handlers[Grand] = AllSignals
  /\ installs = 4
  /\ "rlimit" \in best_effort_failed

-----------------------------------------------------------------------------
(* C12. Help short-circuit.  A run whose one argument is --help or -h      *)
(* prints the usage and exits with status 0 at line 130, whichever of the   *)
(* default configuration files exist: it never reaches ParseFile, so no     *)
(* configuration file is read, and it installs no handler, forks no process *)
(* and never calls Server.Start.  (Lines 94-100 have probed the default     *)
(* paths with stat() by then; the files are not opened.)                    *)

HelpOnly == argv \in {{Tok("help", "")}, {Tok("h", "")}}

C12_HelpShortCircuit ==
  /\ HelpOnly =>
       /\ pc[Orig] \in {"discover", "register", "short_circuit", "exited"}
       /\ pc[Orig] = "exited" => exit_reason[Orig] = "help" /\ status[Orig] = 0
       /\ file_args = {}
       /\ configfile \in {"", DefaultLocal, DefaultSystem}
       /\ ~HandlerInstalled /\ ~Forked /\ installs = 0
       /\ \A p \in Procs : ~Started(p) /\ server[p] = "none"
  /\ exit_reason[Orig] = "help" => HelpOnly /\ status[Orig] = 0

\* The usage was printed for -h although ./kingdb.conf exists.
C12_Witness ==
  /\ argv = {Tok("h", "")}
  /\ exit_reason[Orig] = "help" /\ status[Orig] = 0
  /\ <<DefaultLocal, TRUE>> \in stat_log
  /\ configfile = DefaultLocal

-----------------------------------------------------------------------------
(* C13. Configuration-file discovery.  Without --configfile the resolved    *)
(* file is ./kingdb.conf if stat() finds it, else /etc/kingdb.conf if       *)
(* stat() finds it, else none, and then startup goes on and ParseFile reads *)
(* nothing.  With --configfile naming a file stat() does not find, the run  *)
(* ends with a nonzero status before the full schema is registered or any   *)
(* source parsed with it.  With --configfile naming an existing file that   *)
(* path is the resolved one, whatever defaults exist.  The resolved path is *)
(* a function of the arguments and of the results of stat(), and no later   *)
(* step changes it.                                                         *)

StatFound(path)   == <<path, TRUE>> \in stat_log
StatMissing(path) == <<path, FALSE>> \in stat_log

\* The run ended in lines 80-103: nothing of lines 105-157 has happened.
EndedInDiscovery ==
  /\ pc[Orig] = "exited" /\ status[Orig] # 0 /\ exit_reason[Orig] = "config_error"
  /\ db_options = DeclaredDefaults /\ dbname = "" /\ found = {} /\ file_args = {}

C13_ConfigDiscovery ==
  /\ []((LogOpen /\ pc[Orig] # "discover") =>
          IF ~Has(argv, "configfile")
            THEN /\ StatFound(DefaultLocal) \/ StatMissing(DefaultLocal)
                 /\ ~(StatFound(DefaultLocal) /\ StatMissing(DefaultLocal))
                 /\ StatMissing(DefaultLocal) =>
                      (StatFound(DefaultSystem) \/ StatMissing(DefaultSystem))
                 /\ configfile = IF StatFound(DefaultLocal) THEN DefaultLocal
                                 ELSE IF StatFound(DefaultSystem) THEN DefaultSystem
                                 ELSE ""
                 /\ ~EndedInDiscovery
            ELSE LET path == Get(argv, "configfile") IN
                 IF StatFound(path)
                   THEN configfile = path /\ ~EndedInDiscovery
                   ELSE EndedInDiscovery)
  /\ [][/\ pc[Orig] # "discover" => configfile' = configfile
        /\ (pc[Orig] = "parse_file" /\ configfile = "" /\ pc'[Orig] # "parse_file") =>
             /\ pc'[Orig] = "parse_cmdline"
             /\ UNCHANGED <<file_args, dbname, db_options, found>>
       ]_vars

\* Only the system-wide default exists, and ParseFile has read it.
C13_Witness ==
  /\ argv = {Tok("db.path", "/tmp/db")}
  /\ StatMissing(DefaultLocal) /\ StatFound(DefaultSystem)
  /\ configfile = DefaultSystem
  /\ pc[Orig] = "parse_cmdline"
  /\ Has(file_args, "log.level")

-----------------------------------------------------------------------------
(* C14. Crash path.  When SIGSEGV or SIGABRT is delivered to a process that *)
(* has the crash handler installed, in whatever phase, the process is       *)
(* terminated by the handler with status 1: the step leaves the server, the *)
(* stop flag and everything else of the program as they were, and the       *)
(* process takes no step afterwards (no Server.Stop, no return from main).  *)

C14_CrashPath ==
  /\ [](\A p \in Procs :
          /\ crash_delivered[p] =>
               pc[p] = "crashed" /\ status[p] # 0 /\ exit_reason[p] = "crash"
          /\ pc[p] = "crashed" => crash_delivered[p])
  /\ [][\A p \in Procs :
          /\ (crash_delivered'[p] /\ ~crash_delivered[p]) =>
               /\ handlers[p] \cap CrashSignals # {}
               /\ PreflightDone
               /\ UNCHANGED <<cfgVars, stop_requested, handlers, session_leader,
                              srvVars, histVars>>
               /\ \A q \in Procs \ {p} : pc'[q] = pc[q]
          /\ pc[p] = "crashed" =>
               /\ pc'[p] = "crashed" /\ status'[p] = status[p]
               /\ server'[p] = server[p] /\ start_args'[p] = start_args[p]
               /\ stop_requested'[p] = stop_requested[p]
       ]_vars

\* The descendant was ended by a crash signal inside Server.Stop: the stop
\* never completed.
C14_Witness ==
  /\ pc[Grand] = "crashed" /\ status[Grand] = 1
  /\ server[Grand] = "stopping"
  /\ crash_delivered[Grand]

-----------------------------------------------------------------------------
(* C15. Poll-loop step order.                                               *)

(* C15 as stated: the supervisor sleeps and then checks, so every           *)
(* evaluation of the stop condition comes after a sleep and at least one    *)
(* sleep has completed whenever Server.Stop is called.                      *)
C15_SleepsBeforeChecking ==
  \A p \in Procs :
    pc[p] \in {"stop", "in_stop", "return"} \/ StoppedCleanly(p) => slept[p]

(* C15 as amended: after Server.Start returns the supervisor checks the     *)
(* combined stop condition first and sleeps one interval only when neither  *)
(* part is true, then checks again; every sleep follows an evaluation that  *)
(* found both parts false, the loop is left for Server.Stop from an         *)
(* evaluation that found one of them true, and when that is the first       *)
(* evaluation no sleep takes place between Server.Start and Server.Stop.    *)
C15_ChecksBeforeSleeping ==
  /\ [][\A p \in Procs :
          /\ (pc[p] = "in_start" /\ pc'[p] # pc[p]) => pc'[p] \in {"loop", "crashed"}
          /\ (pc'[p] = "sleep_call" /\ pc[p] # "sleep_call") =>
               pc[p] = "loop" /\ ~stop_requested[p] /\ ~IsStopRequested(p)
          /\ (pc[p] = "sleep_call" /\ pc'[p] # pc[p]) => pc'[p] \in {"sleeping", "crashed"}
          /\ (pc[p] = "sleeping" /\ pc'[p] # pc[p]) => pc'[p] \in {"loop", "crashed"}
          /\ (pc'[p] = "stop" /\ pc[p] # "stop") =>
               pc[p] = "loop" /\ (stop_requested[p] \/ IsStopRequested(p))
          /\ (pc[p] = "loop" /\ ~slept[p] /\ (stop_requested[p] \/ IsStopRequested(p))) =>
               pc'[p] \in {"loop", "stop", "crashed"} /\ ~slept'[p]
       ]_vars
  /\ [](\A p \in Procs : slept[p] => Started(p) /\ pc[p] \notin {"start", "in_start"})

\* Server.Stop has been called and no sleep took place: the server asked to
\* stop before the first evaluation.
C15_Witness ==
  \E p \in Procs :
    /\ pc[p] = "in_stop" /\ ~slept[p]
    /\ ~stop_requested[p]

-----------------------------------------------------------------------------
(* C16. Supervisor exit discipline.  A process in the poll loop leaves it   *)
(* only for Server.Stop, from an evaluation that found stop_requested or    *)
(* IsStopRequested() true, or by a crash signal.  Server.Stop is entered    *)
(* once: from line 220, after Server.Start has returned and the loop has    *)
(* been left, and never again.  A process that called Server.Start exits    *)
(* only by returning 0 from main after Server.Stop has returned, or with    *)
(* the crash handler's status.                                              *)

StopEntered(p) == server[p] \in {"stopping", "stopped"}

C16_ExitDiscipline ==
  /\ [][\A p \in Procs :
          /\ (InLoop(p) /\ ~InLoop(p)') =>
               \/ pc'[p] = "stop" /\ pc[p] = "loop"
                    /\ (stop_requested[p] \/ IsStopRequested(p))
               \/ pc'[p] = "crashed" /\ crash_delivered'[p]
          /\ (StopEntered(p)' /\ ~StopEntered(p)) =>
               /\ pc[p] = "stop" /\ pc'[p] = "in_stop"
               /\ server[p] \in {"running", "stop_requested"}
               /\ server'[p] = "stopping"
          /\ StopEntered(p) =>
               /\ StopEntered(p)'
               /\ server[p] = "stopped" => server'[p] = "stopped"
               /\ server'[p] # server[p] => pc[p] = "in_stop" /\ pc'[p] = "return"
       ]_vars
  /\ [](\A p \in Procs :
          /\ InLoop(p) => server[p] \in {"running", "stop_requested"}
          /\ pc[p] \in {"stop"} => server[p] \in {"running", "stop_requested"}
          /\ (Started(p) /\ Terminated(p)) =>
               StoppedCleanly(p) \/ (pc[p] = "crashed" /\ status[p] # 0)
          /\ (Started(p) /\ Terminated(p) /\ status[p] = 0) => server[p] = "stopped")

\* The server asked to stop by itself during a sleep; no signal was involved.
C16_Witness ==
  \E p \in Procs :
    StoppedCleanly(p) /\ slept[p] /\ ~stop_requested[p] /\ term_count[p] = 0

-----------------------------------------------------------------------------
(* C17. Early termination signal.  A process that has handled SIGINT or     *)
(* SIGTERM before its first evaluation of the loop condition -- while the   *)
(* handlers are being installed, during daemonization or inside             *)
(* Server.Start -- goes on as it would have: the flag stays true in the     *)
(* process that continues (a forked child starts with its parent's value),  *)
(* Server.Start is called, the first evaluation of the loop condition       *)
(* leaves the loop without a sleep, Server.Stop is called and main returns  *)
(* 0.  The only other endings are those an unrelated event causes: a failed *)
(* daemonization step or a crash signal.  Checked under LiveSpec.           *)

BeforeFirstCheck(p) ==
  \/ pc[p] \in {"install", "daemonize", "fork1", "setsid", "fork2", "chdir",
                "start", "in_start"}
  \/ pc[p] = "loop" /\ ~slept[p]

EarlyRequest(p) == stop_requested[p] /\ BeforeFirstCheck(p)

RequestPending == \E q \in Procs : Alive(q) /\ stop_requested[q]

C17_EarlySignal ==
  /\ [][/\ RequestPending => (RequestPending' \/ \A q \in Procs : ~Alive(q)')
        /\ \A p \in Procs :
             (EarlyRequest(p) /\ pc'[p] # pc[p]) =>
                CASE pc[p] = "start"    -> pc'[p] \in {"in_start", "crashed"}
                  [] pc[p] = "in_start" -> pc'[p] \in {"loop", "crashed"}
                  [] pc[p] = "loop"     -> pc'[p] \in {"stop", "crashed"}
                  [] OTHER              -> exit_reason'[p] \in
                                             {"none", "daemon_handoff", "daemon_error", "crash"}
       ]_vars
  /\ (\E p \in Procs : EarlyRequest(p))
       ~> (\E p \in Procs :
             \/ StoppedCleanly(p) /\ Started(p) /\ ~slept[p] /\ stop_requested[p]
             \/ pc[p] = "crashed"
             \/ exit_reason[p] = "daemon_error")

\* The signal reached the original process before the first fork; the final
\* descendant inherited the request, started and stopped the server without
\* a sleep, and returned 0.
C17_Witness ==
  /\ stop_requested[Orig] /\ HandedOff(Orig)
  /\ StoppedCleanly(Grand) /\ Started(Grand)
  /\ ~slept[Grand] /\ ~late_sleep_begun[Grand]
  /\ term_count[Grand] = 1

-----------------------------------------------------------------------------
(* C18. Best-effort steps.  Whether or not the open-file limit could be     *)
(* raised, the next step of main() is the installation of the handlers;     *)
(* whether or not chdir("/") succeeded, daemonize() returns 0 and the final *)
(* descendant goes on to Server.Start.  A process ends with a nonzero       *)
(* status after such a failure only for another reason: a failed fork or    *)
(* setsid, or a crash signal.                                               *)

C18_BestEffort ==
  /\ [][/\ (pc[Orig] = "limit" /\ pc'[Orig] # "limit") =>
             pc'[Orig] = "install" /\ status'[Orig] = status[Orig]
        /\ (pc[Grand] = "chdir" /\ pc'[Grand] # "chdir") =>
             \/ pc'[Grand] = "start" /\ status'[Grand] = status[Grand]
             \/ pc'[Grand] = "crashed" /\ crash_delivered'[Grand]
        /\ best_effort_failed \subseteq best_effort_failed'
       ]_vars
  /\ []( /\ "rlimit" \in best_effort_failed =>
              PreflightDone /\ exit_reason[Orig] \notin {"config_error"}
         /\ "chdir" \in best_effort_failed =>
              /\ pc[Grand] \notin {"unborn", "chdir"}
              /\ daemon_failure = "none"
              /\ Terminated(Grand) => StoppedCleanly(Grand) \/ pc[Grand] = "crashed"
         /\ \A p \in Procs :
              (best_effort_failed # {} /\ Terminated(p) /\ status[p] # 0) =>
                 \/ pc[p] = "crashed" /\ crash_delivered[p]
                 \/ exit_reason[p] = "daemon_error" /\ daemon_failure # "none" )

\* Both best-effort steps failed and the server is running in the final
\* descendant.
C18_Witness ==
  /\ best_effort_failed = {"rlimit", "chdir"}
  /\ server[Grand] = "running"
  /\ pc[Grand] = "sleeping"

-----------------------------------------------------------------------------
(* C19. Frame.  A delivery of SIGINT or SIGTERM changes the stop flag of    *)
(* the process it is delivered to and nothing else of the program.  Once    *)
(* the pre-flight checks are complete, no step -- signal delivery, handler  *)
(* installation, daemonization, the poll loop -- changes the resolved       *)
(* database options, the database path, the foreground flag or the          *)
(* configuration-file path, so Server.Start receives exactly the options    *)
(* and the path that were resolved and validated: a db.path given on the    *)
(* command line is the path Server.Start receives.                          *)

Delivered(p) == pc[p] # "unborn" /\ term_count'[p] # term_count[p]

C19_Frame ==
  /\ [][/\ \A p \in Procs :
             Delivered(p) =>
               /\ UNCHANGED <<cfgVars, pc, status, exit_reason, handlers, session_leader,
                              srvVars, validated, auxVars>>
               /\ stop_requested'[p]
               /\ \A q \in Procs \ {p} : stop_requested'[q] = stop_requested[q]
        /\ ~LogOpen =>
             UNCHANGED <<db_options, dbname, run_in_foreground, configfile, validated>>
        /\ (LogOpen /\ ~LogOpen') =>
             /\ validated' = [db_options |-> db_options, dbname |-> dbname]
             /\ UNCHANGED <<db_options, dbname>>
             /\ Has(argv, "db.path") => validated'.dbname = Get(argv, "db.path")
        /\ \A p \in Procs : Started(p) => start_args'[p] = start_args[p]
       ]_vars
  /\ []( /\ ~LogOpen => validated = [db_options |-> db_options, dbname |-> dbname]
         /\ \A p \in Procs :
              Started(p) => /\ ~LogOpen
                            /\ start_args[p] = [db_options |-> db_options, dbname |-> dbname]
                            /\ start_args[p].dbname \in DbPaths )

\* Two termination signals later, the final descendant's server still runs
\* with the path and the options that were validated.
C19_Witness ==
  /\ server[Grand] = "running"
  /\ term_count[Grand] = 2
  /\ start_args[Grand].dbname = "/tmp/db"
  /\ start_args[Grand].db_options.compression = "kNoCompression"
  /\ start_args[Grand] = validated

-----------------------------------------------------------------------------
(* C20. Short-circuit arity.                                                *)

InfoNames == {"help", "h", "generate-doc"}

\* An informational request together with at least one other argument.
InfoAccompanied ==
  /\ \E t \in argv : t.name \in InfoNames
  /\ Cardinality(argv) >= 2

\* The run ended in lines 148-152: the configuration file, if any, had been
\* parsed without error, and the command line was refused.
EndedInCommandLineParse ==
  /\ pc[Orig] = "exited" /\ exit_reason[Orig] = "config_error"
  /\ ~EndedInDiscovery
  /\ ~ParseFails(file_args)

(* C20 as stated: the short-circuits are taken only with exactly one        *)
(* argument; with --help, -h or --generate-doc accompanied by another       *)
(* argument no short-circuit is taken and startup goes on through the       *)
(* parsing of the configuration file and of the command line to the         *)
(* mandatory-parameter check, so the parsing of the command line does not   *)
(* end the run.                                                             *)
C20_ContinuesToMandatoryCheck ==
  /\ exit_reason[Orig] \in {"help", "generate_doc"} => Cardinality(argv) = 1
  /\ InfoAccompanied =>
       /\ exit_reason[Orig] \notin {"help", "generate_doc"}
       /\ ~EndedInCommandLineParse

(* C20 as amended: the short-circuits are taken only with exactly one       *)
(* argument; with --help, -h or --generate-doc accompanied by another       *)
(* argument no short-circuit is taken and startup goes on to the parsing of *)
(* the configuration file and of the command line like any other            *)
(* invocation; as the parser of the full schema knows no parameter help, h  *)
(* or generate-doc, it refuses the command line and the run ends with a     *)
(* nonzero status before the mandatory-parameter check.                     *)
C20_ShortCircuitArity ==
  /\ []( /\ exit_reason[Orig] \in {"help", "generate_doc"} =>
              /\ Cardinality(argv) = 1
              /\ \E t \in argv : t.name \in InfoNames
              /\ status[Orig] = 0
         /\ InfoAccompanied =>
              /\ exit_reason[Orig] \notin {"help", "generate_doc"}
              /\ pc[Orig] \in {"discover", "register", "short_circuit", "parse_file",
                               "parse_cmdline", "exited"}
              /\ pc[Orig] = "exited" =>
                   exit_reason[Orig] = "config_error" /\ status[Orig] # 0
              /\ ~HandlerInstalled /\ \A p \in Procs : ~Started(p) )
  /\ [][InfoAccompanied =>
          /\ (pc[Orig] = "short_circuit" /\ pc'[Orig] # pc[Orig]) => pc'[Orig] = "parse_file"
          /\ (pc[Orig] = "parse_file" /\ pc'[Orig] # pc[Orig]) =>
               pc'[Orig] \in {"parse_cmdline", "exited"}
          /\ (pc[Orig] = "parse_cmdline" /\ pc'[Orig] # pc[Orig]) =>
               pc'[Orig] = "exited" /\ EndedInCommandLineParse'
       ]_vars

\* --foreground --help: the configuration file was read, then the command
\* line was refused.
C20_Witness ==
  /\ argv = {Tok("foreground", ""), Tok("help", "")}
  /\ EndedInCommandLineParse
  /\ status[Orig] = 255
  /\ Has(file_args, "db.path")

=============================================================================
